---- MODULE Spec2Model ----
(***************************************************************************)
(* Model of the contact form of mail-whisperer-next: the ContactForm       *)
(* component (recipient list, staged attachments, simulated submission)    *)
(* and the RecipientsManager component (manual add, remove, Clear All and  *)
(* the spreadsheet import).                                                *)
(*                                                                         *)
(* A JavaScript string is a sequence of one-character strings, so that     *)
(* trimming, lowercasing and the two regular expressions are computed      *)
(* character by character.  React state is the committed value of each     *)
(* useState cell; a handler reads the values of the render that created    *)
(* it, and of several setState(value) calls made by one callback the last  *)
(* one is the value committed.                                             *)
(***************************************************************************)
EXTENDS Integers, Sequences, FiniteSets, Bags, TLC

\* ------------------------------------------------------------------------
\* Characters and strings
\* ------------------------------------------------------------------------

LowerSeq ==
  << "a", "b", "c", "d", "e", "f", "g", "h", "i", "j", "k", "l", "m",
     "n", "o", "p", "q", "r", "s", "t", "u", "v", "w", "x", "y", "z" >>

UpperSeq ==
  << "A", "B", "C", "D", "E", "F", "G", "H", "I", "J", "K", "L", "M",
     "N", "O", "P", "Q", "R", "S", "T", "U", "V", "W", "X", "Y", "Z" >>

Letters == { LowerSeq[i] : i \in 1..26 } \cup { UpperSeq[i] : i \in 1..26 }

Digits == { "0", "1", "2", "3", "4", "5", "6", "7", "8", "9" }

\* \s of the regular expressions, and the characters String.trim strips
Whitespace == { " ", "\t", "\n", "\r" }

\* [a-zA-Z0-9._%+-]
LocalChars == Letters \cup Digits \cup { ".", "_", "%", "+", "-" }

\* [a-zA-Z0-9.-]
DomainChars == Letters \cup Digits \cup { ".", "-" }

\* [^\s@]
NotSpaceAt(c) == c \notin Whitespace \cup { "@" }

toLowerChar(c) ==
  IF \E i \in 1..26 : UpperSeq[i] = c
    THEN LowerSeq[CHOOSE i \in 1..26 : UpperSeq[i] = c]
    ELSE c

toLowerCase(s) == [ i \in 1..Len(s) |-> toLowerChar(s[i]) ]

trim(s) ==
  LET keep == { i \in 1..Len(s) : s[i] \notin Whitespace }
  IN  IF keep = {} THEN << >>
      ELSE LET lo == CHOOSE i \in keep : \A j \in keep : i <= j
               hi == CHOOSE i \in keep : \A j \in keep : j <= i
           IN  SubSeq(s, lo, hi)

includes(list, x) == \E i \in 1..Len(list) : list[i] = x

\* Variant of validateEmail that refuses two dots in a row
validateEmail_noDoubleDot(email) ==
  /\ \E p \in 1..Len(email) :
       /\ email[p] = "@"
       /\ p > 1
       /\ \A i \in 1..Len(email) : i # p => NotSpaceAt(email[i])
       /\ \E j \in (p + 2)..(Len(email) - 1) : email[j] = "."
  /\ \A i \in 1..(Len(email) - 1) : ~(email[i] = "." /\ email[i + 1] = ".")

\* /^[^\s@]+@[^\s@]+\.[^\s@]+$/.test(email)
validateEmail(email) ==
  \E p \in 1..Len(email) :
    /\ email[p] = "@"
    /\ p > 1
    /\ \A i \in 1..Len(email) : i # p => NotSpaceAt(email[i])
    /\ \E j \in (p + 2)..(Len(email) - 1) : email[j] = "."

\* End (exclusive) of the longest run of characters of class cls from i
RECURSIVE RunEnd(_, _, _)
RunEnd(s, i, cls) ==
  IF i <= Len(s) /\ s[i] \in cls THEN RunEnd(s, i + 1, cls) ELSE i

\* One attempt of /[a-zA-Z0-9._%+-]+@[a-zA-Z0-9.-]+\.[a-zA-Z]{2,}/ at
\* position start: the index of the last matched character, 0 if the
\* attempt fails.  The greedy local part has to stop at an "@"; the greedy
\* domain backtracks to the last "." that two letters follow.
matchAt(s, start) ==
  LET p == RunEnd(s, start, LocalChars)
  IN  IF p = start \/ p > Len(s) \/ s[p] # "@" THEN 0
      ELSE LET q    == RunEnd(s, p + 1, DomainChars)
               dots == { e \in (p + 2)..(q - 1) :
                           /\ s[e] = "."
                           /\ RunEnd(s, e + 1, Letters) >= e + 3 }
           IN  IF dots = {} THEN 0
               ELSE LET e == CHOOSE d \in dots : \A o \in dots : o <= d
                    IN  RunEnd(s, e + 1, Letters) - 1

\* cell.match(/.../g): every non-overlapping match, leftmost first
\* (the empty sequence stands for the null of a cell without a match)
RECURSIVE matchFrom(_, _)
matchFrom(s, start) ==
  IF start > Len(s) THEN << >>
  ELSE LET last == matchAt(s, start)
       IN  IF last = 0 THEN matchFrom(s, start + 1)
           ELSE << SubSeq(s, start, last) >> \o matchFrom(s, last + 1)

match(cell) == matchFrom(cell, 1)

\* ------------------------------------------------------------------------
\* Inputs: what the user types, and the files the user selects
\* ------------------------------------------------------------------------

A_X == << "a", "@", "x", ".", "c", "o", "m" >>

B_Y == << "b", "@", "y", ".", "c", "o", "m" >>

C_Z == << "c", "@", "z", ".", "c", "o", "m" >>

UPPER_A_X == << "A", "@", "X", ".", "C", "O", "M" >>

UPPER_B_Y == << "B", "@", "Y", ".", "C", "O", "M" >>

NOT_AN_EMAIL ==
  << "n", "o", "t", "-", "a", "n", "-", "e", "m", "a", "i", "l" >>

B_Y_C_Z == B_Y \o << " " >> \o C_Z

EMAIL_HEADER == << "E", "m", "a", "i", "l" >>

BLANK == << " " >>

\* Texts typed into the "Enter recipient email address" input
TypedTexts == { << >>, BLANK, NOT_AN_EMAIL, A_X, UPPER_A_X, C_Z }

\* A cell of a parsed sheet: a string or a number
Str(s) == [ type |-> "string", v |-> s ]

Num(n) == [ type |-> "number", v |-> n ]

\* A worksheet is its grid of rows; a workbook its sheets in SheetNames order
Sheet(rows) == [ rows |-> rows ]

\* The workbook of the example: four cells in one column
Section8Sheet ==
  Sheet(<< << Str(A_X) >>, << Str(UPPER_A_X) >>, << Str(NOT_AN_EMAIL) >>,
           << Str(B_Y_C_Z) >> >>)

\* A header row, then one address per sheet; the second sheet has no header
ContactsSheet == Sheet(<< << Str(EMAIL_HEADER) >>, << Str(C_Z) >> >>)

ExtraSheet == Sheet(<< << Str(UPPER_B_Y), Num(7) >>, << Str(C_Z) >> >>)

NotesSheet == Sheet(<< << Str(EMAIL_HEADER) >>, << Str(NOT_AN_EMAIL), Num(42) >> >>)

D_W == << "d", "@", "w", ".", "i", "o" >>

\* No header row: the first row holds an address, the second row two
LeadsSheet == Sheet(<< << Str(C_Z) >>, << Str(B_Y), Str(A_X) >> >>)

MoreSheet == Sheet(<< << Str(EMAIL_HEADER) >>, << Str(D_W) >> >>)

\* Cells at the edges of the extraction pattern: two dots in a row, a local
\* part of signs before a domain that is a hyphen, a top-level domain of
\* one letter, two @ in a row, a digit in the top-level domain, and a
\* one-letter label after the top-level domain
DOUBLE_DOT == << "a", "@", "x", ".", ".", "c", "o", "m" >>

SIGNS_AT_HYPHEN == << "%", "+", "-", ".", "_", "@", "-", ".", "c", "o" >>

SHORT_TLD == << "b", "@", "y", ".", "c" >>

TWO_ATS == << "a", "@", "@", "x", ".", "c", "o", "m" >>

DIGIT_TLD == << "a", "@", "x", ".", "c", "0", "m" >>

EXTRA_LABEL == << "c", "@", "z", ".", "c", "o", "m", ".", "b" >>

EdgesSheet ==
  Sheet(<< << Str(DOUBLE_DOT) >>, << Str(SIGNS_AT_HYPHEN) >>,
           << Str(SHORT_TLD) >>, << Str(TWO_ATS) >>, << Str(DIGIT_TLD) >>,
           << Str(EXTRA_LABEL) >> >>)

\* The files the user can select
Files ==
  { "section8.xlsx", "contacts.xlsx", "leads.xlsx", "edges.xlsx", "notes.csv",
    "broken.xlsx" }

\* XLSX.read(data, { type: 'array' }): the workbook, or ok = FALSE when the
\* call throws
XLSX_read(file) ==
  CASE file = "section8.xlsx" -> [ ok |-> TRUE, sheets |-> << Section8Sheet >> ]
    [] file = "contacts.xlsx" -> [ ok |-> TRUE, sheets |-> << ContactsSheet, ExtraSheet >> ]
    [] file = "leads.xlsx"    -> [ ok |-> TRUE, sheets |-> << LeadsSheet, MoreSheet >> ]
    [] file = "edges.xlsx"    -> [ ok |-> TRUE, sheets |-> << EdgesSheet >> ]
    [] file = "notes.csv"     -> [ ok |-> TRUE, sheets |-> << NotesSheet >> ]
    [] OTHER                  -> [ ok |-> FALSE, sheets |-> << >> ]

\* XLSX.utils.sheet_to_json(worksheet): the first row gives the keys, every
\* later row is one record; Object.values(row) are its cells in column order
sheet_to_json(worksheet) ==
  IF worksheet.rows = << >> THEN << >> ELSE Tail(worksheet.rows)

\* XLSX.utils.sheet_to_json(worksheet, { header: 1 }): every row as an array
sheet_to_json_raw(worksheet) == worksheet.rows

\* ------------------------------------------------------------------------
\* The scan of handleExcelImport's loaded callback
\* ------------------------------------------------------------------------

EmptyResult == [ emails |-> << >>, duplicates |-> << >>, invalid |-> << >> ]

\* Variant of classify without toLowerCase
classify_caseSensitive(acc, recipients, emailMatch) ==
  LET email == trim(emailMatch)
  IN  IF validateEmail(email)
        THEN IF includes(recipients, email)
               THEN IF ~includes(acc.duplicates, email)
                      THEN [acc EXCEPT !.duplicates = Append(@, email)]
                      ELSE acc
               ELSE IF ~includes(acc.emails, email)
                      THEN [acc EXCEPT !.emails = Append(@, email)]
                      ELSE acc
        ELSE IF ~includes(acc.invalid, emailMatch)
               THEN [acc EXCEPT !.invalid = Append(@, emailMatch)]
               ELSE acc

\* Variant of classify that pushes without the emails.includes and
\* duplicates.includes tests
classify_pushAlways(acc, recipients, emailMatch) ==
  LET email == toLowerCase(trim(emailMatch))
  IN  IF validateEmail(email)
        THEN IF includes(recipients, email)
               THEN [acc EXCEPT !.duplicates = Append(@, email)]
               ELSE [acc EXCEPT !.emails = Append(@, email)]
        ELSE IF ~includes(acc.invalid, emailMatch)
               THEN [acc EXCEPT !.invalid = Append(@, emailMatch)]
               ELSE acc

\* The body of potentialEmails.forEach: one match against the recipients of
\* the closure
classify(acc, recipients, emailMatch) ==
  LET email == toLowerCase(trim(emailMatch))
  IN  IF validateEmail(email)
        THEN IF includes(recipients, email)
               THEN IF ~includes(acc.duplicates, email)
                      THEN [acc EXCEPT !.duplicates = Append(@, email)]
                      ELSE acc
               ELSE IF ~includes(acc.emails, email)
                      THEN [acc EXCEPT !.emails = Append(@, email)]
                      ELSE acc
        ELSE IF ~includes(acc.invalid, emailMatch)
               THEN [acc EXCEPT !.invalid = Append(@, emailMatch)]
               ELSE acc

RECURSIVE classifyAll(_, _, _)
classifyAll(acc, recipients, potentialEmails) ==
  IF potentialEmails = << >> THEN acc
  ELSE classifyAll(classify(acc, recipients, Head(potentialEmails)),
                   recipients, Tail(potentialEmails))

\* if (cell && typeof cell === 'string') { cell.match(...) ... }
scanCell(acc, recipients, cell) ==
  IF cell.type = "string" /\ cell.v # << >>
    THEN classifyAll(acc, recipients, match(cell.v))
    ELSE acc

RECURSIVE scanRow(_, _, _)
scanRow(acc, recipients, row) ==
  IF row = << >> THEN acc
  ELSE scanRow(scanCell(acc, recipients, Head(row)), recipients, Tail(row))

RECURSIVE scanRows(_, _, _)
scanRows(acc, recipients, rows) ==
  IF rows = << >> THEN acc
  ELSE scanRows(scanRow(acc, recipients, Head(rows)), recipients, Tail(rows))

\* Variant of scanSheet with the raw rows first
scanSheet_rawFirst(acc, recipients, worksheet) ==
  scanRows(scanRows(acc, recipients, sheet_to_json_raw(worksheet)),
           recipients, sheet_to_json(worksheet))

\* Method 1 (records keyed by the header row), then Method 2 (raw rows)
scanSheet(acc, recipients, worksheet) ==
  scanRows(scanRows(acc, recipients, sheet_to_json(worksheet)),
           recipients, sheet_to_json_raw(worksheet))

RECURSIVE scanSheets(_, _, _)
scanSheets(acc, recipients, sheets) ==
  IF sheets = << >> THEN acc
  ELSE scanSheets(scanSheet(acc, recipients, Head(sheets)), recipients,
                  Tail(sheets))

\* emails, duplicates and invalid when workbook.SheetNames.forEach returns
scanWorkbook(recipients, workbook) ==
  scanSheets(EmptyResult, recipients, workbook.sheets)

\* ------------------------------------------------------------------------
\* State
\* ------------------------------------------------------------------------

VARIABLES
  recipients,     \* ContactForm: useState<string[]>([])
  attachedFiles,  \* ContactForm: useState<File[]>([])
  isLoading,      \* ContactForm: useState(false)
  form,           \* ContactForm: the values of the four form fields
  newRecipient,   \* RecipientsManager: useState("")
  readers,        \* FileReaders whose readAsArrayBuffer has not yet loaded,
                  \* each with the recipients its onload closure captured
  timers,         \* onSubmit calls suspended at the await, oldest first
  toasts,         \* the notifications of the latest event, in order
  lastImport      \* the outcome of the latest loaded callback, until
                  \* another operation on the recipients follows it

vars ==
  << recipients, attachedFiles, isLoading, form, newRecipient, readers,
     timers, toasts, lastImport >>

\* Bound of the model: FileReaders in flight at the same time when only
\* imports run
MaxReaders == 2

\* Bound of the model: FileReaders in flight at the same time when the
\* other events interleave with them
MaxPending == 1

\* Bound of the model: length of the recipient lists a scan is tried on
MaxListLen == 2

\* Bound of the model: files of one selection in the attachment picker
MaxBatch == 2

\* Bound of the model: calls of onSubmit suspended at the same time when
\* the submit event is raised on the form itself
MaxSubmits == 2

\* const maxSize = 10 * 1024 * 1024
maxSize == 10 * 1024 * 1024

\* const maxFiles = 5
maxFiles == 5

defaultValues ==
  [ name |-> << >>, email |-> << >>, subject |-> << >>, message |-> << >> ]

\* Texts typed into the form fields
FieldTexts ==
  [ name    |-> { << "J" >>, << "J", "o" >> },
    email   |-> { << >>, A_X },
    subject |-> { << >>, << "H", "e", "l", "l", "o" >> },
    message |-> { << >>, << "H", "e", "l", "l", "o", " ", "t", "h", "e",
                          "r", "e" >> } ]

\* contactFormSchema; z.string().email() is taken to accept what
\* validateEmail accepts
contactFormSchema(data) ==
  /\ Len(data.name) >= 2
  /\ validateEmail(data.email)
  /\ Len(data.subject) >= 5
  /\ Len(data.message) >= 10

\* The files of the attachment picker
FilePool ==
  { [ name |-> "notes.txt", size |-> 2048 ],
    [ name |-> "scan.png",  size |-> maxSize ],
    [ name |-> "video.zip", size |-> maxSize + 1 ] }

\* toast({ title, description }): a notification without variant
Toast(title) ==
  [ title |-> title, variant |-> "default", description |-> << >> ]

\* toast({ title, description, variant: "destructive" }): an error
ErrorToast(title) ==
  [ title |-> title, variant |-> "destructive", description |-> << >> ]

Count(n, what) == [ n |-> n, what |-> what ]

\* lastImport when no loaded callback is the latest operation; otherwise
\* the file, whether XLSX.read returned, the recipients of the callback's
\* closure, the list the callback found, the three lists of the scan, and
\* the arguments of the callback's calls of onAddRecipient, in call order
NoImport ==
  [ file |-> "", ok |-> FALSE, recipients |-> << >>, before |-> << >>,
    emails |-> << >>, duplicates |-> << >>, invalid |-> << >>,
    calls |-> << >> ]

\* ------------------------------------------------------------------------
\* ContactForm: the callbacks handed to RecipientsManager.  Each reads the
\* recipients of the render that created it and calls setRecipients with a
\* value, so its result replaces whatever an earlier call of the same
\* callback left pending.
\* ------------------------------------------------------------------------

\* Variant of onAddRecipient with an updater, setRecipients(prev =>
\* [...prev, email]): the test reads the closure, the append the pending list
onAddRecipient_updater(closure, pending, email) ==
  IF email # << >> /\ ~includes(closure, email)
    THEN pending \o << email >>
    ELSE pending

\* Variant of onAddRecipient that puts the address first, [email, ...recipients]
onAddRecipient_prepend(closure, pending, email) ==
  IF email # << >> /\ ~includes(closure, email)
    THEN << email >> \o closure
    ELSE pending

\* handleAddRecipient of ContactForm
onAddRecipient(closure, pending, email) ==
  IF email # << >> /\ ~includes(closure, email)
    THEN closure \o << email >>
    ELSE pending

\* Variant of onRemoveRecipient that drops every entry from the removed one
\* on, as a splice without a delete count does
onRemoveRecipient_splice(closure, pending, email) ==
  LET at == CHOOSE i \in 1..(Len(closure) + 1) :
              /\ i <= Len(closure) => closure[i] = email
              /\ \A j \in 1..(i - 1) : closure[j] # email
  IN  SubSeq(closure, 1, at - 1)

\* handleRemoveRecipient of ContactForm
onRemoveRecipient(closure, pending, email) ==
  LET Keep(r) == r # email IN SelectSeq(closure, Keep)

\* emails.forEach(email => onAddRecipient(email))
RECURSIVE addEach(_, _, _)
addEach(closure, pending, emails) ==
  IF emails = << >> THEN pending
  ELSE addEach(closure, onAddRecipient(closure, pending, Head(emails)),
               Tail(emails))

\* The arguments of the calls emails.forEach(email => onAddRecipient(email))
\* makes: one call per index, in index order
forEachCalls(emails) == [ i \in 1..Len(emails) |-> emails[i] ]

\* recipients.forEach(email => onRemoveRecipient(email))
RECURSIVE removeEach(_, _, _)
removeEach(closure, pending, emails) ==
  IF emails = << >> THEN pending
  ELSE removeEach(closure, onRemoveRecipient(closure, pending, Head(emails)),
                  Tail(emails))

\* ------------------------------------------------------------------------
\* Initial state: the first render of ContactForm and RecipientsManager
\* ------------------------------------------------------------------------

Init ==
  /\ recipients = << >>
  /\ attachedFiles = << >>
  /\ isLoading = FALSE
  /\ form = defaultValues
  /\ newRecipient = << >>
  /\ readers = EmptyBag
  /\ timers = << >>
  /\ toasts = << >>
  /\ lastImport = NoImport

\* ------------------------------------------------------------------------
\* RecipientsManager
\* ------------------------------------------------------------------------

\* onChange of the recipient input: setNewRecipient(e.target.value)
setNewRecipient(text) ==
  /\ newRecipient' = text
  /\ toasts' = << >>
  /\ UNCHANGED << recipients, attachedFiles, isLoading, form, readers,
                  timers, lastImport >>

\* Variant of addToast without the recipients.includes test
addToast_noDuplicateTest(list, text) ==
  IF trim(text) = << >> THEN ErrorToast("Invalid Email")
  ELSE IF ~validateEmail(text) THEN ErrorToast("Invalid Email Format")
  ELSE Toast("Recipient Added")

\* Variant of addToast without the validateEmail test
addToast_noFormatTest(list, text) ==
  IF trim(text) = << >> THEN ErrorToast("Invalid Email")
  ELSE IF includes(list, text) THEN ErrorToast("Duplicate Email")
  ELSE Toast("Recipient Added")

\* The toast of handleAddRecipient for the text in the input
addToast(list, text) ==
  IF trim(text) = << >> THEN ErrorToast("Invalid Email")
  ELSE IF ~validateEmail(text) THEN ErrorToast("Invalid Email Format")
  ELSE IF includes(list, text) THEN ErrorToast("Duplicate Email")
  ELSE Toast("Recipient Added")

\* handleAddRecipient of RecipientsManager: the plus button or the Enter key
handleAddRecipient ==
  LET t == addToast(recipients, newRecipient)
  IN  /\ toasts' = << t >>
      /\ IF t.title = "Recipient Added"
           THEN /\ recipients' =
                     onAddRecipient(recipients, recipients, newRecipient)
                /\ newRecipient' = << >>
           ELSE UNCHANGED << recipients, newRecipient >>
      /\ lastImport' = NoImport
      /\ UNCHANGED << attachedFiles, isLoading, form, readers, timers >>

\* handleRemoveRecipient of RecipientsManager: the X button of one entry
handleRemoveRecipient(email) ==
  /\ includes(recipients, email)
  /\ recipients' = onRemoveRecipient(recipients, recipients, email)
  /\ toasts' = << Toast("Recipient Removed") >>
  /\ lastImport' = NoImport
  /\ UNCHANGED << attachedFiles, isLoading, form, newRecipient, readers,
                  timers >>

\* onClick of the Clear All button, rendered when recipients.length > 0
clearAll ==
  /\ Len(recipients) > 0
  /\ recipients' = removeEach(recipients, recipients, recipients)
  /\ toasts' = << Toast("All Recipients Cleared") >>
  /\ lastImport' = NoImport
  /\ UNCHANGED << attachedFiles, isLoading, form, newRecipient, readers,
                  timers >>

\* handleExcelImport: the change event of the hidden file input.  The
\* reader starts loading and the input is reset; onload runs later.
\* Nothing in the handler looks at the readers already in flight.
handleExcelImport(file) ==
  /\ readers' = readers (+) SetToBag({ [ recipients |-> recipients,
                                          file |-> file ] })
  /\ toasts' = << >>
  /\ UNCHANGED << recipients, attachedFiles, isLoading, form, newRecipient,
                  timers, lastImport >>

\* The messages of the summary toast, non-zero counts only
messages(res) ==
  (IF Len(res.emails) > 0
     THEN << Count(Len(res.emails), "imported successfully") >> ELSE << >>)
  \o (IF Len(res.duplicates) > 0
        THEN << Count(Len(res.duplicates), "duplicates skipped") >> ELSE << >>)
  \o (IF Len(res.invalid) > 0
        THEN << Count(Len(res.invalid), "invalid emails skipped") >> ELSE << >>)

\* Variant of importToast that looks at emails only
importToast_newOnly(res) ==
  IF Len(res.emails) = 0
    THEN ErrorToast("No Emails Found")
    ELSE [ title |-> "Excel Import Complete", variant |-> "default",
           description |-> messages(res) ]

\* The toast of a loaded callback whose workbook parsed
importToast(res) ==
  IF Len(res.emails) = 0 /\ Len(res.duplicates) = 0
    THEN ErrorToast("No Emails Found")
    ELSE [ title |-> "Excel Import Complete", variant |-> "default",
           description |-> messages(res) ]

\* Variant of onload whose catch puts back the recipients of its closure
onload_restoreOnFailure(reader) ==
  LET workbook == XLSX_read(reader.file)
      res      == scanWorkbook(reader.recipients, workbook)
  IN  /\ BagIn(reader, readers)
      /\ readers' = readers (-) SetToBag({ reader })
      /\ IF workbook.ok
           THEN /\ recipients' =
                     addEach(reader.recipients, recipients, res.emails)
                /\ toasts' = << importToast(res) >>
                /\ lastImport' =
                     [ file |-> reader.file, ok |-> TRUE,
                       recipients |-> reader.recipients,
                       before |-> recipients,
                       emails |-> res.emails,
                       duplicates |-> res.duplicates,
                       invalid |-> res.invalid,
                       calls |-> forEachCalls(res.emails) ]
           ELSE /\ recipients' = reader.recipients
                /\ toasts' = << ErrorToast("Import Failed") >>
                /\ lastImport' =
                     [ NoImport EXCEPT !.file = reader.file,
                                       !.recipients = reader.recipients,
                                       !.before = recipients ]
      /\ UNCHANGED << attachedFiles, isLoading, form, newRecipient, timers >>

\* reader.onload of one reader in flight
onload(reader) ==
  LET workbook == XLSX_read(reader.file)
      res      == scanWorkbook(reader.recipients, workbook)
  IN  /\ BagIn(reader, readers)
      /\ readers' = readers (-) SetToBag({ reader })
      /\ IF workbook.ok
           THEN /\ recipients' =
                     addEach(reader.recipients, recipients, res.emails)
                /\ toasts' = << importToast(res) >>
                /\ lastImport' =
                     [ file |-> reader.file, ok |-> TRUE,
                       recipients |-> reader.recipients,
                       before |-> recipients,
                       emails |-> res.emails,
                       duplicates |-> res.duplicates,
                       invalid |-> res.invalid,
                       calls |-> forEachCalls(res.emails) ]
           ELSE /\ UNCHANGED recipients
                /\ toasts' = << ErrorToast("Import Failed") >>
                /\ lastImport' =
                     [ NoImport EXCEPT !.file = reader.file,
                                       !.recipients = reader.recipients,
                                       !.before = recipients ]
      /\ UNCHANGED << attachedFiles, isLoading, form, newRecipient, timers >>

\* ------------------------------------------------------------------------
\* ContactForm
\* ------------------------------------------------------------------------

\* onChange of one form field (react-hook-form's field.onChange)
fieldChange(field, text) ==
  /\ form' = [form EXCEPT ![field] = text]
  /\ toasts' = << >>
  /\ UNCHANGED << recipients, attachedFiles, isLoading, newRecipient,
                  readers, timers, lastImport >>

\* files.filter(file => file.size <= maxSize), a toast per rejected file
validFiles(files) ==
  LET Fits(file) == ~(file.size > maxSize) IN SelectSeq(files, Fits)

tooLargeToasts(files) ==
  LET Large(file) == file.size > maxSize
  IN  [ i \in 1..Len(SelectSeq(files, Large)) |-> ErrorToast("File Too Large") ]

\* Variant of handleFileAttach without the test against maxFiles
handleFileAttach_noCap(files) ==
  /\ toasts' = tooLargeToasts(files)
  /\ attachedFiles' = attachedFiles \o validFiles(files)
  /\ UNCHANGED << recipients, isLoading, form, newRecipient, readers,
                  timers, lastImport >>

\* handleFileAttach: the change event of the attachment input
handleFileAttach(files) ==
  /\ IF Len(attachedFiles) + Len(files) > maxFiles
       THEN /\ toasts' = << ErrorToast("Too Many Files") >>
            /\ UNCHANGED attachedFiles
       ELSE /\ toasts' = tooLargeToasts(files)
            /\ attachedFiles' = attachedFiles \o validFiles(files)
  /\ UNCHANGED << recipients, isLoading, form, newRecipient, readers,
                  timers, lastImport >>

\* handleRemoveFile: the trash button of one staged file
handleRemoveFile(index) ==
  /\ index \in 1..Len(attachedFiles)
  /\ attachedFiles' =
       [ i \in 1..(Len(attachedFiles) - 1) |->
           IF i < index THEN attachedFiles[i] ELSE attachedFiles[i + 1] ]
  /\ toasts' = << >>
  /\ UNCHANGED << recipients, isLoading, form, newRecipient, readers,
                  timers, lastImport >>

\* Variant of submitDisabled without isLoading
submitDisabled_noLoading == Len(recipients) = 0

\* <Button type="submit" disabled={isLoading || recipients.length === 0}>
submitDisabled == isLoading \/ Len(recipients) = 0

\* Variant of onSubmit without the test of recipients.length
onSubmit_noGuard ==
  /\ isLoading' = TRUE
  /\ timers' = Append(timers, [ recipients |-> recipients,
                                attachedFiles |-> attachedFiles ])
  /\ toasts' = << >>

\* onSubmit up to its await: the guard, setIsLoading(true), the log and the
\* timer, which keeps the recipients and attachedFiles of this render
onSubmit ==
  IF Len(recipients) = 0
    THEN /\ toasts' = << ErrorToast("No Recipients") >>
         /\ UNCHANGED << isLoading, timers >>
    ELSE /\ isLoading' = TRUE
         /\ timers' = Append(timers, [ recipients |-> recipients,
                                       attachedFiles |-> attachedFiles ])
         /\ toasts' = << >>

\* The submit event of the form, <form onSubmit={form.handleSubmit(onSubmit)}>:
\* onSubmit is called when the values pass contactFormSchema
handleSubmit ==
  /\ contactFormSchema(form)
  /\ onSubmit
  /\ lastImport' = NoImport
  /\ UNCHANGED << recipients, attachedFiles, form, newRecipient, readers >>

\* A click on the submit button, which raises the submit event when the
\* button is enabled
submitClick == ~submitDisabled /\ handleSubmit

\* Variant of onSubmitResume without setRecipients([])
onSubmitResume_keepRecipients ==
  /\ timers # << >>
  /\ toasts' =
       << [ title |-> "Email Prepared", variant |-> "default",
            description |->
              << Count(Len(Head(timers).recipients), "recipient(s)"),
                 Count(Len(Head(timers).attachedFiles), "attachment(s)") >> ] >>
  /\ form' = defaultValues
  /\ attachedFiles' = << >>
  /\ isLoading' = FALSE
  /\ timers' = Tail(timers)
  /\ lastImport' = NoImport
  /\ UNCHANGED << recipients, newRecipient, readers >>

\* onSubmit after the 2000 ms timer: the toast, the reset and the finally
onSubmitResume ==
  /\ timers # << >>
  /\ toasts' =
       << [ title |-> "Email Prepared", variant |-> "default",
            description |->
              << Count(Len(Head(timers).recipients), "recipient(s)"),
                 Count(Len(Head(timers).attachedFiles), "attachment(s)") >> ] >>
  /\ form' = defaultValues
  /\ recipients' = << >>
  /\ attachedFiles' = << >>
  /\ isLoading' = FALSE
  /\ timers' = Tail(timers)
  /\ lastImport' = NoImport
  /\ UNCHANGED << newRecipient, readers >>

\* ------------------------------------------------------------------------
\* Specifications
\* ------------------------------------------------------------------------

\* Selections of the attachment picker: up to MaxBatch files
Batches(pool) ==
  UNION { [ 1..n -> pool ] : n \in 0..MaxBatch }

Fields == { "name", "email", "subject", "message" }

\* The whole program: every event with every input
Next ==
  \/ \E text \in TypedTexts : setNewRecipient(text)
  \/ handleAddRecipient
  \/ \E i \in 1..Len(recipients) : handleRemoveRecipient(recipients[i])
  \/ clearAll
  \/ \E file \in Files :
       BagCardinality(readers) < MaxReaders /\ handleExcelImport(file)
  \/ \E reader \in BagToSet(readers) : onload(reader)
  \/ \E field \in Fields : \E text \in FieldTexts[field] :
       fieldChange(field, text)
  \/ \E files \in Batches(FilePool) : handleFileAttach(files)
  \/ \E index \in 1..Len(attachedFiles) : handleRemoveFile(index)
  \/ submitClick
  \/ onSubmitResume

Spec == Init /\ [][Next]_vars

\* The state space of Spec is the product of the recipient list with its
\* readers in flight, the form fields and the staged files.  The
\* specifications below take the events of one part of the program each.

\* RecipientsManager without the import: typing, add, remove, Clear All
NextManual ==
  \/ \E text \in TypedTexts : setNewRecipient(text)
  \/ handleAddRecipient
  \/ \E i \in 1..Len(recipients) : handleRemoveRecipient(recipients[i])
  \/ clearAll

SpecManual == Init /\ [][NextManual]_vars

\* Recipient lists the manual operations reach, as the import finds them
StartLists ==
  { << >>, << A_X >>, << UPPER_A_X >>, << C_Z >>, << A_X, C_Z >>,
    << C_Z, A_X, B_Y >> }

InitImport ==
  /\ recipients \in StartLists
  /\ attachedFiles = << >>
  /\ isLoading = FALSE
  /\ form = defaultValues
  /\ newRecipient = << >>
  /\ readers = EmptyBag
  /\ timers = << >>
  /\ toasts = << >>
  /\ lastImport = NoImport

\* The files selected when imports overlap: those whose addresses are
\* a@x.com, b@y.com and c@z.com, the file without an address and the file
\* that does not parse
ImportFiles ==
  { "section8.xlsx", "contacts.xlsx", "notes.csv", "broken.xlsx" }

\* The import alone: file selections and loaded callbacks
NextImport ==
  \/ \E file \in ImportFiles :
       BagCardinality(readers) < MaxReaders /\ handleExcelImport(file)
  \/ \E reader \in BagToSet(readers) : onload(reader)

SpecImport == InitImport /\ [][NextImport]_vars

\* The scan as a function of its two inputs: every list without
\* duplicates of at most MaxListLen of the addresses, and every file, taken
\* at the moment the reader has been started
Addresses == { A_X, UPPER_A_X, B_Y, C_Z }

ScanLists ==
  { list \in UNION { [ 1..n -> Addresses ] : n \in 0..MaxListLen } :
      \A i, j \in 1..Len(list) : i # j => list[i] # list[j] }

InitScan ==
  /\ recipients \in ScanLists
  /\ attachedFiles = << >>
  /\ isLoading = FALSE
  /\ form = defaultValues
  /\ newRecipient = << >>
  /\ \E file \in Files :
       readers = SetToBag({ [ recipients |-> recipients, file |-> file ] })
  /\ timers = << >>
  /\ toasts = << >>
  /\ lastImport = NoImport

NextScan == \E reader \in BagToSet(readers) : onload(reader)

SpecScan == InitScan /\ [][NextScan]_vars

\* The form filled in with values that pass contactFormSchema
FormFilled ==
  [ name    |-> << "J", "o" >>,
    email   |-> A_X,
    subject |-> << "H", "e", "l", "l", "o" >>,
    message |-> << "H", "e", "l", "l", "o", " ", "t", "h", "e", "r", "e" >> ]

InitFilled ==
  /\ recipients = << >>
  /\ attachedFiles = << >>
  /\ isLoading = FALSE
  /\ form = FormFilled
  /\ newRecipient = << >>
  /\ readers = EmptyBag
  /\ timers = << >>
  /\ toasts = << >>
  /\ lastImport = NoImport

\* Every event that writes the recipient list, interleaved with imports in
\* flight, from a filled-in form
NextRecipients ==
  \/ \E text \in { C_Z } : setNewRecipient(text)
  \/ handleAddRecipient
  \/ \E i \in 1..Len(recipients) : handleRemoveRecipient(recipients[i])
  \/ clearAll
  \/ \E file \in { "contacts.xlsx", "broken.xlsx" } :
       BagCardinality(readers) < MaxPending /\ handleExcelImport(file)
  \/ \E reader \in BagToSet(readers) : onload(reader)
  \/ submitClick
  \/ onSubmitResume

SpecRecipients == InitFilled /\ [][NextRecipients]_vars

\* The two ways into the recipient list: a blank text, a text that is no
\* address and an address typed and added (the input starts empty), and
\* the import of the workbook whose cells hold texts that are no addresses
NextAddImport ==
  \/ \E text \in { BLANK, NOT_AN_EMAIL, UPPER_A_X } : setNewRecipient(text)
  \/ handleAddRecipient
  \/ \E file \in { "section8.xlsx" } :
       BagCardinality(readers) < MaxPending /\ handleExcelImport(file)
  \/ \E reader \in BagToSet(readers) : onload(reader)

SpecAddImport == Init /\ [][NextAddImport]_vars

\* One file that fits and one that does not
SmallPool ==
  { file \in FilePool : file.name \in { "notes.txt", "video.zip" } }

\* ContactForm: the fields, the staged files and the submission, with the
\* manual add and remove that give the submission its recipients
NextForm ==
  \/ \E text \in { A_X } : setNewRecipient(text)
  \/ handleAddRecipient
  \/ \E i \in 1..Len(recipients) : handleRemoveRecipient(recipients[i])
  \/ \E field \in Fields : \E text \in FieldTexts[field] :
       fieldChange(field, text)
  \/ \E files \in Batches(SmallPool) : handleFileAttach(files)
  \/ \E index \in 1..Len(attachedFiles) : handleRemoveFile(index)
  \/ submitClick
  \/ onSubmitResume

SpecForm == Init /\ [][NextForm]_vars

\* onSubmit as the handler of the form's submit event, whatever the state
\* of the button: the event is raised on the form itself, with and without
\* recipients and staged files
NextSubmit ==
  \/ \E text \in { A_X } : setNewRecipient(text)
  \/ handleAddRecipient
  \/ \E i \in 1..Len(recipients) : handleRemoveRecipient(recipients[i])
  \/ \E files \in Batches(SmallPool) : handleFileAttach(files)
  \/ \E index \in 1..Len(attachedFiles) : handleRemoveFile(index)
  \/ Len(timers) < MaxSubmits /\ handleSubmit
  \/ onSubmitResume

SpecSubmit == InitFilled /\ [][NextSubmit]_vars

\* ------------------------------------------------------------------------
\* Properties
\* ------------------------------------------------------------------------

\* The steps the properties speak about
LoadStep == \E reader \in BagToSet(readers) : onload(reader)

RemoveStep(i) == handleRemoveRecipient(recipients[i])

FieldStep ==
  \E field \in Fields : \E text \in FieldTexts[field] : fieldChange(field, text)

AttachStep == \E files \in Batches(FilePool) : handleFileAttach(files)

RemoveFileStep == \E index \in 1..Len(attachedFiles) : handleRemoveFile(index)

Elements(list) == { list[i] : i \in 1..Len(list) }

Without(list, i) == SubSeq(list, 1, i - 1) \o SubSeq(list, i + 1, Len(list))

\* C1: after the Clear All action the recipient list is empty, whatever
\* its size was before.
C1_ClearAllEmpties == [][clearAll => recipients' = << >>]_vars

\* C2: when a loaded callback has classified k addresses as new, the list
\* afterwards is the list before the callback followed by those k
\* addresses in first-discovery order.
C2_ImportAppendsEveryNew ==
  [][(LoadStep /\ lastImport'.ok)
       => recipients' = recipients \o lastImport'.emails]_vars

\* C3: a second import of the same file, run on the list as the first
\* import left it and with no operation in between, classifies nothing as
\* new: what the first classified as new the second classifies as duplicate.
C3_ReimportFindsNothingNew ==
  [][\A reader \in BagToSet(readers) :
       ( /\ onload(reader)
         /\ lastImport.ok
         /\ lastImport.file = reader.file
         /\ reader.recipients = recipients )
       => /\ lastImport'.emails = << >>
          /\ Elements(lastImport.emails) \subseteq Elements(lastImport'.duplicates)
    ]_vars

\* C4: the recipient list never holds two equal entries.
C4_NoDuplicates ==
  \A i, j \in 1..Len(recipients) : i # j => recipients[i] # recipients[j]

\* C4 witness: a loaded callback whose closure held another list than the
\* one it found has added an address, and the list holds two entries.
C4_Witness ==
  /\ lastImport.ok
  /\ lastImport.recipients # lastImport.before
  /\ lastImport.emails # << >>
  /\ Len(recipients) >= 2

\* C5: a manual add of a valid address that is not in the list appends it
\* at the end and leaves the earlier entries and their order as they were.
C5_AddAppends ==
  [][( /\ handleAddRecipient
       /\ validateEmail(newRecipient)
       /\ ~includes(recipients, newRecipient) )
       => /\ recipients' = Append(recipients, newRecipient)
          /\ Len(recipients') = Len(recipients) + 1
    ]_vars

\* C5 witness: an address has been added behind an earlier entry.
C5_Witness ==
  /\ toasts = << Toast("Recipient Added") >>
  /\ Len(recipients) >= 2

\* C6: a manual add of an empty or blank text, of a text that fails the
\* validation rule, or of an address already in the list leaves the list as
\* it was and reports one error; for an address already in the list this
\* is the duplicate error.
C6_RejectedAdd ==
  [][( /\ handleAddRecipient
       /\ \/ trim(newRecipient) = << >>
          \/ ~validateEmail(newRecipient)
          \/ includes(recipients, newRecipient) )
       => /\ recipients' = recipients
          /\ Len(toasts') = 1
          /\ toasts'[1].variant = "destructive"
          /\ includes(recipients, newRecipient)
               => toasts'[1].title = "Duplicate Email"
    ]_vars

\* C6 witness: the duplicate error has been reported.
C6_Witness ==
  /\ toasts = << ErrorToast("Duplicate Email") >>
  /\ includes(recipients, newRecipient)

\* C7: removing an entry takes the count down by one and removes that
\* entry only; the others keep their order.
C7_RemoveOne ==
  [][\A i \in 1..Len(recipients) :
       RemoveStep(i)
       => /\ recipients' = Without(recipients, i)
          /\ Len(recipients') = Len(recipients) - 1
    ]_vars

\* C7 witness: an entry has been removed and another is still in the list.
C7_Witness ==
  /\ toasts = << Toast("Recipient Removed") >>
  /\ Len(recipients) >= 1

\* C8: at most one import is in flight at any time.
C8_OneImportInFlight == BagCardinality(readers) <= 1

\* C9: a field edit, attaching or removing a file, and the start or the
\* completion of a submission leave the recipient list as it was.
C9_OnlyAddRemoveClear ==
  [][(FieldStep \/ AttachStep \/ RemoveFileStep \/ submitClick
        \/ onSubmitResume)
       => recipients' = recipients]_vars

\* C9 as amended: a field edit, attaching or removing a file, and the start
\* of a submission leave the recipient list as it was; the completion of a
\* submission empties it.
C9_FrameAndReset ==
  [][ /\ (FieldStep \/ AttachStep \/ RemoveFileStep \/ submitClick)
         => recipients' = recipients
      /\ onSubmitResume => recipients' = << >>
    ]_vars

\* C9 witness: a submission to one recipient or more has completed.
C9_Witness ==
  /\ Len(toasts) = 1
  /\ toasts[1].title = "Email Prepared"
  /\ toasts[1].description[1].n >= 1
  /\ recipients = << >>

\* C10: for the workbook with the cells a@x.com, A@X.COM, not-an-email and
\* "b@y.com c@z.com" and the list holding a@x.com, new is {b@y.com,
\* c@z.com}, duplicate is {a@x.com} and invalid is {not-an-email}.
C10_Section8Example ==
  (lastImport.file = "section8.xlsx" /\ lastImport.recipients = << A_X >>)
  => /\ Elements(lastImport.emails) = { B_Y, C_Z }
     /\ Elements(lastImport.duplicates) = { A_X }
     /\ Elements(lastImport.invalid) = { NOT_AN_EMAIL }

\* C10 as amended: for that workbook and that list, new is {b@y.com,
\* c@z.com}, duplicate is {a@x.com} and invalid is empty: the extraction
\* pattern finds no match in not-an-email.
C10_Section8Scan ==
  (lastImport.file = "section8.xlsx" /\ lastImport.recipients = << A_X >>)
  => /\ lastImport.ok
     /\ Elements(lastImport.emails) = { B_Y, C_Z }
     /\ Len(lastImport.emails) = 2
     /\ lastImport.duplicates = << A_X >>
     /\ lastImport.invalid = << >>

\* C10 witness: the loaded callback of that workbook has run on that list.
C10_Witness ==
  /\ lastImport.file = "section8.xlsx"
  /\ lastImport.recipients = << A_X >>
  /\ lastImport.ok

\* The order of discovery, written down apart from the scan: the matches of
\* every string cell, cell after cell, row after row, the records of the
\* header-keyed pass before the rows of the raw pass, sheet after sheet
RECURSIVE Flatten(_)
Flatten(seqs) ==
  IF seqs = << >> THEN << >> ELSE Head(seqs) \o Flatten(Tail(seqs))

CellMatches(cell) == IF cell.type = "string" THEN match(cell.v) ELSE << >>

RowMatches(row) == Flatten([ i \in 1..Len(row) |-> CellMatches(row[i]) ])

RowsMatches(rows) == Flatten([ i \in 1..Len(rows) |-> RowMatches(rows[i]) ])

SheetMatches(worksheet) ==
  RowsMatches(sheet_to_json(worksheet))
    \o RowsMatches(sheet_to_json_raw(worksheet))

Discovered(file) ==
  LET sheets == XLSX_read(file).sheets
      found  == Flatten([ i \in 1..Len(sheets) |-> SheetMatches(sheets[i]) ])
  IN  [ i \in 1..Len(found) |-> toLowerCase(trim(found[i])) ]

FirstAt(list, e) ==
  CHOOSE i \in 1..Len(list) :
    list[i] = e /\ \A j \in 1..(i - 1) : list[j] # e

\* C11: a loaded callback whose workbook parsed calls the add operation
\* once for every address of its new set and for no other address, and
\* the calls come in the order in which the scan first discovered the
\* addresses: sheet order, header-keyed pass before raw pass, cell order,
\* match order.
C11_AddCallsInDiscoveryOrder ==
  lastImport.ok =>
    LET calls == lastImport.calls
        found == Discovered(lastImport.file)
    IN  /\ \A i, j \in 1..Len(calls) : i # j => calls[i] # calls[j]
        /\ Elements(calls) = Elements(lastImport.emails)
        /\ Elements(calls) =
             { e \in Elements(found) :
                 validateEmail(e) /\ ~includes(lastImport.recipients, e) }
        /\ \A i, j \in 1..Len(calls) :
             i < j => FirstAt(found, calls[i]) < FirstAt(found, calls[j])

\* C11 witness: the two sheets of leads.xlsx have been scanned on the empty
\* list; the calls follow both passes of the first sheet, then the second
\* sheet, and are not in alphabetical order.
C11_Witness ==
  /\ lastImport.ok
  /\ lastImport.file = "leads.xlsx"
  /\ lastImport.calls = << B_Y, A_X, C_Z, D_W >>

\* C12: the loaded callback of a workbook that XLSX.read throws on reports
\* one notification, the import failure, calls the add operation not once,
\* and leaves the recipient list as it was when the callback began.
C12_UnparsableWorkbook ==
  [][\A reader \in BagToSet(readers) :
       (onload(reader) /\ ~XLSX_read(reader.file).ok)
       => /\ toasts' = << ErrorToast("Import Failed") >>
          /\ lastImport'.calls = << >>
          /\ recipients' = recipients
    ]_vars

\* C12 witness: the callback of broken.xlsx has run on a list that is not
\* empty and is no longer the list of its closure.
C12_Witness ==
  /\ lastImport.file = "broken.xlsx"
  /\ ~lastImport.ok
  /\ toasts = << ErrorToast("Import Failed") >>
  /\ lastImport.before # lastImport.recipients
  /\ recipients = lastImport.before
  /\ Len(recipients) >= 1

\* The counts a summary may list, in the order of the summary
SummaryCounts ==
  << Count(Len(lastImport.emails), "imported successfully"),
     Count(Len(lastImport.duplicates), "duplicates skipped"),
     Count(Len(lastImport.invalid), "invalid emails skipped") >>

\* C13: a loaded callback whose workbook parsed reports one notification:
\* the 'nothing found' error exactly when the new set and the duplicate set
\* are both empty, and otherwise one summary that lists the counts of new,
\* duplicate and invalid that are not zero, and no other.
C13_OneNotification ==
  lastImport.ok =>
    /\ Len(toasts) = 1
    /\ toasts[1] = ErrorToast("No Emails Found")
         <=> (lastImport.emails = << >> /\ lastImport.duplicates = << >>)
    /\ toasts[1] # ErrorToast("No Emails Found")
         => /\ toasts[1].title = "Excel Import Complete"
            /\ toasts[1].variant = "default"
            /\ LET NonZero(c) == c.n > 0
               IN  toasts[1].description = SelectSeq(SummaryCounts, NonZero)

\* C13 witness: a summary that lists two counts and leaves out the third,
\* which is zero.
C13_Witness ==
  /\ lastImport.ok
  /\ lastImport.emails # << >>
  /\ lastImport.duplicates # << >>
  /\ lastImport.invalid = << >>
  /\ Len(toasts) = 1
  /\ Len(toasts[1].description) = 2

\* C14: every entry of the recipient list passes the validation rule, in
\* every state that manual adds and imports reach.
C14_EntriesValidated ==
  \A i \in 1..Len(recipients) : validateEmail(recipients[i])

\* C14 witness: the list holds an address that was typed and one that only
\* the import brings, and a typed text that fails the rule has been refused.
C14_Witness ==
  /\ toasts = << ErrorToast("Invalid Email Format") >>
  /\ ~validateEmail(newRecipient)
  /\ includes(recipients, UPPER_A_X)
  /\ includes(recipients, B_Y)

\* C15: when the recipient list is empty, onSubmit reports the 'No
\* Recipients' error and returns: the loading flag is not set, no timer is
\* started (and with it nothing is logged), and the form, the recipient
\* list and the staged files are as they were.
C15_NoRecipientsNoDelay ==
  [][(handleSubmit /\ Len(recipients) = 0)
       => /\ toasts' = << ErrorToast("No Recipients") >>
          /\ isLoading' = isLoading
          /\ timers' = timers
          /\ form' = form
          /\ recipients' = recipients
          /\ attachedFiles' = attachedFiles
    ]_vars

\* C15 witness: the error has been reported for a filled-in form with a
\* staged file, and nothing is loading.
C15_Witness ==
  /\ toasts = << ErrorToast("No Recipients") >>
  /\ recipients = << >>
  /\ attachedFiles # << >>
  /\ form = FormFilled
  /\ ~isLoading
  /\ timers = << >>

\* C16: at most one submission is in flight; the loading flag is true
\* exactly while a submission is between its start and its completion, the
\* submit button is disabled for all that time, and a click starts a
\* submission only when the flag is false.
C16_OneSubmissionInFlight ==
  /\ [](/\ Len(timers) <= 1
        /\ isLoading <=> timers # << >>
        /\ isLoading => submitDisabled)
  /\ [][submitClick => (~isLoading /\ isLoading' /\ Len(timers') = 1)]_vars

\* C16 witness: a submission is in its delay while the list holds a
\* recipient and the form passes the schema, so that only the loading flag
\* disables the button.
C16_Witness ==
  /\ isLoading
  /\ Len(timers) = 1
  /\ Len(recipients) >= 1
  /\ contactFormSchema(form)
  /\ submitDisabled

\* The files of a selection that are not over 10 MB, and those that are
Accepted(files) ==
  LET AtMost10MB(file) == file.size <= 10 * 1024 * 1024
  IN  SelectSeq(files, AtMost10MB)

Oversize(files) ==
  LET Over10MB(file) == file.size > 10 * 1024 * 1024
  IN  SelectSeq(files, Over10MB)

\* C17: when a selection holds a file over 10 MB together with files of at
\* most 10 MB, and the staged files with the files of at most 10 MB are no
\* more than 5, the files of at most 10 MB are appended to the staged list
\* and one error is reported for every file over 10 MB.
C17_OversizeRejectedAlone ==
  [][\A files \in Batches(FilePool) :
       ( /\ handleFileAttach(files)
         /\ Oversize(files) # << >>
         /\ Accepted(files) # << >>
         /\ Len(attachedFiles) + Len(Accepted(files)) <= 5 )
       => /\ attachedFiles' = attachedFiles \o Accepted(files)
          /\ Len(toasts') = Len(Oversize(files))
          /\ \A i \in 1..Len(toasts') :
               toasts'[i] = ErrorToast("File Too Large")
    ]_vars

\* C18: the staged list never holds more than 5 files and never a file over
\* 10 MB, and a selection whose files of at most 10 MB would take the
\* staged list past 5 is refused with the staged list as it was.
C18_StagedWithinLimits ==
  /\ [](/\ Len(attachedFiles) <= 5
        /\ \A i \in 1..Len(attachedFiles) :
             attachedFiles[i].size <= 10 * 1024 * 1024)
  /\ [][\A files \in Batches(FilePool) :
         ( /\ handleFileAttach(files)
           /\ Len(attachedFiles) + Len(Accepted(files)) > 5 )
         => /\ attachedFiles' = attachedFiles
            /\ toasts' = << ErrorToast("Too Many Files") >>
      ]_vars

\* C18 witness: five files are staged and a further selection has been
\* refused.
C18_Witness ==
  /\ Len(attachedFiles) = 5
  /\ toasts = << ErrorToast("Too Many Files") >>

IsPrefix(list, longer) ==
  /\ Len(list) <= Len(longer)
  /\ SubSeq(longer, 1, Len(list)) = list

\* C19: a loaded callback changes the recipient list only by appending:
\* the list as it stands when the callback begins is a prefix of the list
\* when it returns, whatever happened to the list since the file was
\* selected.
C19_LoadOnlyAppends ==
  [][LoadStep => IsPrefix(recipients, recipients')]_vars

\* C20: some match of the extraction pattern, trimmed and lower-cased,
\* fails the validation rule, so that the import of some file ends with an
\* invalid list that is not empty.  Whether a match goes to the invalid
\* list does not depend on the recipient list, so the import is taken on
\* the list of the state.
C20_SomeMatchFailsValidation ==
  \E file \in Files :
    /\ \E e \in Elements(Discovered(file)) : ~validateEmail(e)
    /\ scanWorkbook(recipients, XLSX_read(file)).invalid # << >>

\* C20 as amended: every match of the extraction pattern, trimmed and
\* lower-cased, passes the validation rule, and the invalid list of a
\* loaded callback is empty.
C20_MatchesPassValidation ==
  lastImport.ok =>
    /\ \A e \in Elements(Discovered(lastImport.file)) : validateEmail(e)
    /\ lastImport.invalid = << >>

\* C20 witness: the cells at the edges of the pattern have been scanned;
\* the match with two dots in a row and the match of signs are in the new
\* set.
C20_Witness ==
  /\ lastImport.ok
  /\ lastImport.file = "edges.xlsx"
  /\ includes(lastImport.emails, DOUBLE_DOT)
  /\ includes(lastImport.emails, SIGNS_AT_HYPHEN)
  /\ lastImport.invalid = << >>

NoRepeat(list) ==
  \A i, j \in 1..Len(list) : i # j => list[i] # list[j]

\* How often the scan comes upon an address, over cells, sheets and passes
Occurrences(file, e) ==
  LET found == Discovered(file)
  IN  Cardinality({ i \in 1..Len(found) : found[i] = e })

\* C21: when a loaded callback whose workbook parsed has scanned every
\* sheet in both passes, the new set and the duplicate set hold every
\* address at most once and have no address in common; the duplicate set
\* holds exactly the found addresses that are in the recipient list of the
\* callback's closure, the new set exactly those that are not.
C21_NoDoubleCount ==
  lastImport.ok =>
    LET found == { e \in Elements(Discovered(lastImport.file)) :
                     validateEmail(e) }
        known == Elements(lastImport.recipients)
    IN  /\ NoRepeat(lastImport.emails)
        /\ NoRepeat(lastImport.duplicates)
        /\ Elements(lastImport.emails) \cap Elements(lastImport.duplicates)
             = { }
        /\ Elements(lastImport.duplicates) = found \cap known
        /\ Elements(lastImport.emails) = found \ known

\* C21 witness: contacts.xlsx has been scanned on the list that holds
\* b@y.com; the scan came upon c@z.com four times, in two sheets and both
\* passes, and the new set holds it once, and the duplicate set holds
\* b@y.com once.
C21_Witness ==
  /\ lastImport.ok
  /\ lastImport.file = "contacts.xlsx"
  /\ lastImport.recipients = << B_Y >>
  /\ Occurrences("contacts.xlsx", C_Z) >= 4
  /\ lastImport.emails = << C_Z >>
  /\ lastImport.duplicates = << B_Y >>

====
